---- MODULE Spec2Model ----
(***************************************************************************)
(* Model of lambda/lambda_function.py: the localized-string resolver, the  *)
(* request handlers, the handler chain registered on the SkillBuilder and  *)
(* the catch-all exception handler.  One step of the model is one          *)
(* invocation of lambda_handler on one request envelope (or one call of    *)
(* get_localized_string on its own).                                       *)
(*                                                                         *)
(* Text is modelled as a sequence of tokens.  A token is literal text, a   *)
(* sequence of characters (a locale tag), a named placeholder of a         *)
(* template, or the body of an HTTP response.  Locale tags and slot values *)
(* are sequences of one-character strings so that split, lower and strip   *)
(* are computed, not assumed.                                              *)
(***************************************************************************)
EXTENDS Integers, Sequences, FiniteSets, TLC

VARIABLES LOCALIZED_STRINGS, envelope, handler, ran, fault, boundary,
          outcome, calls, http, rArgs, rOut, rOut2

vars == <<LOCALIZED_STRINGS, envelope, handler, ran, fault, boundary,
          outcome, calls, http, rArgs, rOut, rOut2>>

\* ---------------------------------------------------------------- bounds
MaxLen == 3

\* ---------------------------------------------------------------- text
Lit(s) == [k |-> "lit", s |-> s, q |-> <<>>]
Chars(q) == [k |-> "chars", s |-> "", q |-> q]
Ph(n) == [k |-> "ph", s |-> n, q |-> <<>>]
Body(b) == [k |-> "body", s |-> b, q |-> <<>>]

UpperCase == <<"A", "B", "D", "E", "F", "G", "I", "N", "R", "S", "T", "U">>
LowerCase == <<"a", "b", "d", "e", "f", "g", "i", "n", "r", "s", "t", "u">>

lower_char(c) ==
  IF \E i \in 1..Len(UpperCase) : UpperCase[i] = c
  THEN LowerCase[CHOOSE i \in 1..Len(UpperCase) : UpperCase[i] = c]
  ELSE c

lower(str) == [i \in 1..Len(str) |-> lower_char(str[i])]

\* str.split('-')[0]: the part before the first '-', the whole string
\* when it has none.
split_first(str) ==
  IF \E i \in 1..Len(str) : str[i] = "-"
  THEN SubSeq(str, 1, (CHOOSE i \in 1..Len(str) :
                         /\ str[i] = "-"
                         /\ \A j \in 1..(i - 1) : str[j] # "-") - 1)
  ELSE str

IsSpace(c) == c = " "

\* str.strip(): leading and trailing whitespace removed.
strip(str) ==
  IF \A i \in 1..Len(str) : IsSpace(str[i])
  THEN <<>>
  ELSE LET first == CHOOSE i \in 1..Len(str) :
                      /\ ~IsSpace(str[i])
                      /\ \A j \in 1..(i - 1) : IsSpace(str[j])
           last  == CHOOSE i \in 1..Len(str) :
                      /\ ~IsSpace(str[i])
                      /\ \A j \in (i + 1)..Len(str) : IsSpace(str[j])
       IN SubSeq(str, first, last)

\* ---------------------------------------------------------------- locales
en_US == <<"e", "n", "-", "U", "S">>
en_GB == <<"e", "n", "-", "G", "B">>
EN_gb == <<"E", "N", "-", "g", "b">>
it_IT == <<"i", "t", "-", "I", "T">>
fr_FR == <<"f", "r", "-", "F", "R">>
en == <<"e", "n">>
it == <<"i", "t">>

Locales == {en_US, en_GB, EN_gb, it_IT, fr_FR}

\* ---------------------------------------------------------------- table
Keys == {"WELCOME_MESSAGE", "WELCOME_REPROMPT", "LANGUAGE_CHECK_MESSAGE",
         "NEWS_GENERAL_ERROR", "NEWS_API_ERROR", "NEWS_TOPIC_NOT_FOUND",
         "NEWS_TOPIC_NOT_CAUGHT", "HELLO_WORLD_MESSAGE", "HELP_MESSAGE",
         "HELP_REPROMPT", "GOODBYE_MESSAGE", "FALLBACK_MESSAGE",
         "FALLBACK_REPROMPT", "ERROR_MESSAGE"}

\* A complete entry of responses.json: every key has a template, the
\* language check template names the placeholder {locale}.
FullEntry(tag) ==
  [key \in Keys |->
     IF key = "LANGUAGE_CHECK_MESSAGE"
     THEN <<Lit(key), Chars(tag), Ph("locale")>>
     ELSE <<Lit(key), Chars(tag)>>]

\* An entry with keys missing and with templates whose placeholders the
\* handlers do not supply.
PartialEntry(tag) ==
  [key \in Keys \ {"NEWS_TOPIC_NOT_FOUND", "HELP_REPROMPT", "GOODBYE_MESSAGE"} |->
     IF key = "LANGUAGE_CHECK_MESSAGE"
     THEN <<Lit(key), Ph("locale"), Ph("name")>>
     ELSE IF key \in {"WELCOME_MESSAGE", "NEWS_API_ERROR"}
     THEN <<Lit(key), Chars(tag), Ph("name")>>
     ELSE <<Lit(key), Chars(tag)>>]

LanguageTable == (en :> FullEntry(en)) @@ (it :> FullEntry(it))
MixedTable == (en_US :> FullEntry(en_US)) @@ (en :> FullEntry(en))
                @@ (it :> PartialEntry(it))
ExactTable == (en_US :> FullEntry(en_US)) @@ (it_IT :> PartialEntry(it_IT))
PartialTable == (en :> PartialEntry(en)) @@ (en_GB :> FullEntry(en_GB))

Tables == {LanguageTable, MixedTable, ExactTable, PartialTable}

\* ---------------------------------------------------------------- resolver
Returned(v) == [raised |-> FALSE, val |-> v]
Raised == [raised |-> TRUE, val |-> <<>>]

\* The f-string of line 45.
MissingTranslation(key, locale) ==
  <<Lit("Missing translation for key: "), Lit(key),
    Lit(" in locale: "), Chars(locale)>>

\* str.format(**kwargs): KeyError when a placeholder has no argument,
\* otherwise every placeholder replaced by its argument.
format(template, kwargs) ==
  IF \E i \in 1..Len(template) :
       template[i].k = "ph" /\ template[i].s \notin DOMAIN kwargs
  THEN Raised
  ELSE Returned([i \in 1..Len(template) |->
                   IF template[i].k = "ph" THEN kwargs[template[i].s]
                   ELSE template[i]])

format_or_template_Mut(template, kwargs) ==
  [i \in 1..Len(template) |->
     IF template[i].k = "ph" /\ template[i].s \in DOMAIN kwargs
     THEN kwargs[template[i].s] ELSE template[i]]

\* Lines 48-52: the formatted string, the template itself on KeyError.
format_or_template(template, kwargs) ==
  LET f == format(template, kwargs) IN
  IF f.raised THEN template ELSE f.val

api_language(locale) == lower(split_first(locale))

\* Line 42: dict.get(locale, LOCALIZED_STRINGS[api_language]).  The default
\* argument is evaluated before the call, so the subscript raises KeyError
\* whenever the language is not a key of the table.
locale_strings(tbl, locale) ==
  LET language == api_language(locale) IN
  IF language \notin DOMAIN tbl
  THEN Raised
  ELSE Returned(IF locale \in DOMAIN tbl THEN tbl[locale] ELSE tbl[language])

get_localized_string(tbl, locale, key, kwargs) ==
  LET ls == locale_strings(tbl, locale) IN
  IF ls.raised THEN Raised
  ELSE LET string_template ==
             IF key \in DOMAIN ls.val THEN ls.val[key]
             ELSE MissingTranslation(key, locale)
       IN Returned(format_or_template(string_template, kwargs))

\* A call without keyword arguments.
NoArgs == [n \in {} |-> Lit("")]

\* ---------------------------------------------------------------- requests
IntentNames == {"HelloWorldIntent", "LanguageCheckIntent", "NewsRequestIntent",
                "AMAZON.HelpIntent", "AMAZON.CancelIntent", "AMAZON.StopIntent",
                "AMAZON.FallbackIntent", "AMAZON.YesIntent", "OrderPizzaIntent"}

RequestTypes == {"LaunchRequest", "IntentRequest", "SessionEndedRequest",
                 "System.ExceptionEncountered"}

RECURSIVE StringsUpTo(_)
StringsUpTo(n) ==
  IF n = 0 THEN {<<>>}
  ELSE StringsUpTo(n - 1) \cup
       {Append(str, c) : str \in StringsUpTo(n - 1), c \in {" ", "a"}}

\* intent.slots: None, a mapping without userInput, userInput with value
\* None, userInput with a string value.
NoSlots == [map |-> FALSE, slot |-> FALSE, hasValue |-> FALSE, value |-> <<>>]
EmptySlots == [map |-> TRUE, slot |-> FALSE, hasValue |-> FALSE, value |-> <<>>]
SlotNoValue == [map |-> TRUE, slot |-> TRUE, hasValue |-> FALSE, value |-> <<>>]
SlotWith(v) == [map |-> TRUE, slot |-> TRUE, hasValue |-> TRUE, value |-> v]

SlotChoices == {NoSlots, EmptySlots, SlotNoValue}
                 \cup {SlotWith(v) : v \in StringsUpTo(MaxLen)}

Envelopes ==
  {[type |-> "IntentRequest", intent |-> n, slots |-> sl, locale |-> l] :
     n \in IntentNames, sl \in SlotChoices, l \in Locales}
  \cup
  {[type |-> t, intent |-> "", slots |-> NoSlots, locale |-> l] :
     t \in RequestTypes \ {"IntentRequest"}, l \in Locales}

NoEnvelope == [type |-> "", intent |-> "", slots |-> NoSlots, locale |-> <<>>]

HTTP_OK == 200

\* What requests.get does: it raises, or it returns a status and a body.
NoHttp == [raised |-> FALSE, status |-> 0, body |-> ""]
HttpOutcomes ==
  {[raised |-> TRUE, status |-> 0, body |-> ""]}
  \cup {[raised |-> FALSE, status |-> st, body |-> b] :
          st \in {HTTP_OK, 404, 503}, b \in {"", "summary"}}

\* ---------------------------------------------------------------- results
NoText == <<>>

Raise(e, cs) ==
  [raised |-> TRUE, exc |-> e, hasSpeak |-> FALSE, speak |-> NoText,
   hasReprompt |-> FALSE, reprompt |-> NoText, calls |-> cs]

Respond(hasSp, sp, hasRe, re, cs) ==
  [raised |-> FALSE, exc |-> "", hasSpeak |-> hasSp, speak |-> sp,
   hasReprompt |-> hasRe, reprompt |-> re, calls |-> cs]

\* response_builder.speak(get_localized_string(key)).response
speak_key(tbl, env, key, kwargs) ==
  LET g == get_localized_string(tbl, env.locale, key, kwargs) IN
  IF g.raised THEN Raise("KeyError", <<>>)
  ELSE Respond(TRUE, g.val, FALSE, NoText, <<>>)

\* response_builder.speak(...).ask(...).response
speak_ask_keys(tbl, env, key, rekey) ==
  LET g == get_localized_string(tbl, env.locale, key, NoArgs)
      r == get_localized_string(tbl, env.locale, rekey, NoArgs)
  IN IF g.raised \/ r.raised THEN Raise("KeyError", <<>>)
     ELSE Respond(TRUE, g.val, TRUE, r.val, <<>>)

\* ---------------------------------------------------------------- handlers
is_request_type(t, env) == env.type = t
is_intent_name(n, env) == env.type = "IntentRequest" /\ env.intent = n

LaunchRequestHandler_handle(tbl, env) ==
  speak_ask_keys(tbl, env, "WELCOME_MESSAGE", "WELCOME_REPROMPT")

LanguageCheckIntentHandler_handle(tbl, env) ==
  speak_key(tbl, env, "LANGUAGE_CHECK_MESSAGE",
            [n \in {"locale"} |-> Chars(env.locale)])

HelloWorldIntentHandler_handle(tbl, env) ==
  speak_key(tbl, env, "HELLO_WORLD_MESSAGE", NoArgs)

HelpIntentHandler_handle(tbl, env) ==
  speak_ask_keys(tbl, env, "HELP_MESSAGE", "HELP_REPROMPT")

CancelOrStopIntentHandler_handle(tbl, env) ==
  speak_key(tbl, env, "GOODBYE_MESSAGE", NoArgs)

FallbackIntentHandler_handle(tbl, env) ==
  speak_ask_keys(tbl, env, "FALLBACK_MESSAGE", "FALLBACK_REPROMPT")

SessionEndedRequestHandler_handle(tbl, env) ==
  Respond(FALSE, NoText, FALSE, NoText, <<>>)

IntentReflectorHandler_handle(tbl, env) ==
  Respond(TRUE, <<Lit("You just triggered "), Lit(env.intent), Lit(".")>>,
          FALSE, NoText, <<>>)

\* ---------------------------------------------------------------- news
\* Line 115: `user_input_slot and user_input_slot.value`.
slot_has_value(slots) == slots.slot /\ slots.hasValue /\ slots.value # <<>>

\* Line 119: the parameters of the GET.
request_params(env) ==
  [query |-> strip(env.slots.value), language |-> env.locale]

response_mapping_Mut(tbl, env, res) ==
  IF res.status # 503 THEN Returned(<<Body(res.body)>>)
  ELSE get_localized_string(tbl, env.locale, "NEWS_API_ERROR", NoArgs)

\* Lines 121-125.
response_mapping(tbl, env, res) ==
  IF res.status = HTTP_OK THEN Returned(<<Body(res.body)>>)
  ELSE get_localized_string(tbl, env.locale, "NEWS_API_ERROR", NoArgs)

\* Lines 105-132, the body of the try: the text to speak or an exception,
\* and the calls made on the way.
news_try(tbl, env, res) ==
  IF ~env.slots.map THEN [raised |-> TRUE, val |-> NoText, calls |-> <<>>]
  ELSE IF slot_has_value(env.slots)
  THEN IF res.raised
       THEN [raised |-> TRUE, val |-> NoText, calls |-> <<request_params(env)>>]
       ELSE LET m == response_mapping(tbl, env, res)
            IN [raised |-> m.raised, val |-> m.val,
                calls |-> <<request_params(env)>>]
  ELSE LET g == get_localized_string(tbl, env.locale,
                  IF ~env.slots.slot THEN "NEWS_TOPIC_NOT_FOUND"
                  ELSE "NEWS_TOPIC_NOT_CAUGHT", NoArgs)
       IN [raised |-> g.raised, val |-> g.val, calls |-> <<>>]

NewsRequestIntentHandler_handle(tbl, env, res) ==
  LET d == get_localized_string(tbl, env.locale, "NEWS_GENERAL_ERROR", NoArgs)
      t == news_try(tbl, env, res)
      x == get_localized_string(tbl, env.locale, "NEWS_API_ERROR", NoArgs)
  IN IF d.raised THEN Raise("KeyError", <<>>)
     ELSE IF ~t.raised THEN Respond(TRUE, t.val, FALSE, NoText, t.calls)
     ELSE IF x.raised THEN Raise("KeyError", t.calls)
     ELSE Respond(TRUE, x.val, FALSE, NoText, t.calls)

\* ---------------------------------------------------------------- dispatch
\* The handlers in the order of the add_request_handler calls.
HandlerChain_Mut ==
  <<"LaunchRequestHandler", "IntentReflectorHandler",
    "HelloWorldIntentHandler", "LanguageCheckIntentHandler",
    "NewsRequestIntentHandler", "HelpIntentHandler",
    "CancelOrStopIntentHandler", "FallbackIntentHandler",
    "SessionEndedRequestHandler">>

HandlerChain ==
  <<"LaunchRequestHandler", "HelloWorldIntentHandler",
    "LanguageCheckIntentHandler", "NewsRequestIntentHandler",
    "HelpIntentHandler", "CancelOrStopIntentHandler",
    "FallbackIntentHandler", "SessionEndedRequestHandler",
    "IntentReflectorHandler">>

can_handle_Mut(h, env) ==
  CASE h = "LaunchRequestHandler" -> is_request_type("LaunchRequest", env)
    [] h = "HelloWorldIntentHandler" -> is_intent_name("HelloWorldIntent", env)
    [] h = "LanguageCheckIntentHandler" ->
         is_intent_name("LanguageCheckIntent", env)
    [] h = "NewsRequestIntentHandler" -> is_intent_name("NewsRequestIntent", env)
    [] h = "HelpIntentHandler" -> is_intent_name("AMAZON.HelpIntent", env)
    [] h = "CancelOrStopIntentHandler" ->
         \/ is_intent_name("AMAZON.CancelIntent", env)
         \/ is_intent_name("AMAZON.StopIntent", env)
         \/ is_intent_name("AMAZON.HelpIntent", env)
    [] h = "FallbackIntentHandler" -> is_intent_name("AMAZON.FallbackIntent", env)
    [] h = "SessionEndedRequestHandler" ->
         is_request_type("SessionEndedRequest", env)
    [] h = "IntentReflectorHandler" -> is_request_type("IntentRequest", env)

can_handle(h, env) ==
  CASE h = "LaunchRequestHandler" -> is_request_type("LaunchRequest", env)
    [] h = "HelloWorldIntentHandler" -> is_intent_name("HelloWorldIntent", env)
    [] h = "LanguageCheckIntentHandler" ->
         is_intent_name("LanguageCheckIntent", env)
    [] h = "NewsRequestIntentHandler" -> is_intent_name("NewsRequestIntent", env)
    [] h = "HelpIntentHandler" -> is_intent_name("AMAZON.HelpIntent", env)
    [] h = "CancelOrStopIntentHandler" ->
         \/ is_intent_name("AMAZON.CancelIntent", env)
         \/ is_intent_name("AMAZON.StopIntent", env)
    [] h = "FallbackIntentHandler" -> is_intent_name("AMAZON.FallbackIntent", env)
    [] h = "SessionEndedRequestHandler" ->
         is_request_type("SessionEndedRequest", env)
    [] h = "IntentReflectorHandler" -> is_request_type("IntentRequest", env)

handle(h, tbl, env, res) ==
  CASE h = "LaunchRequestHandler" -> LaunchRequestHandler_handle(tbl, env)
    [] h = "HelloWorldIntentHandler" -> HelloWorldIntentHandler_handle(tbl, env)
    [] h = "LanguageCheckIntentHandler" ->
         LanguageCheckIntentHandler_handle(tbl, env)
    [] h = "NewsRequestIntentHandler" ->
         NewsRequestIntentHandler_handle(tbl, env, res)
    [] h = "HelpIntentHandler" -> HelpIntentHandler_handle(tbl, env)
    [] h = "CancelOrStopIntentHandler" ->
         CancelOrStopIntentHandler_handle(tbl, env)
    [] h = "FallbackIntentHandler" -> FallbackIntentHandler_handle(tbl, env)
    [] h = "SessionEndedRequestHandler" ->
         SessionEndedRequestHandler_handle(tbl, env)
    [] h = "IntentReflectorHandler" -> IntentReflectorHandler_handle(tbl, env)

NoHandler == "none"

\* The dispatcher of the skill: the first handler of the chain whose
\* can_handle is true, none when there is no such handler.
first_match(env) ==
  LET able == {i \in 1..Len(HandlerChain) : can_handle(HandlerChain[i], env)}
  IN IF able = {} THEN NoHandler
     ELSE HandlerChain[CHOOSE i \in able : \A j \in able : i <= j]

\* The handler's result, a DispatchException when no handler is found.
dispatch(tbl, env, res) ==
  LET h == first_match(env) IN
  IF h = NoHandler THEN Raise("DispatchException", <<>>)
  ELSE handle(h, tbl, env, res)

\* ---------------------------------------------------------------- boundary
CatchAllExceptionHandler_can_handle_Mut(exc) == exc # "DispatchException"

CatchAllExceptionHandler_can_handle(exc) == TRUE

CatchAllExceptionHandler_handle(tbl, env) ==
  LET g == get_localized_string(tbl, env.locale, "ERROR_MESSAGE", NoArgs) IN
  IF g.raised THEN Raise("KeyError", <<>>)
  ELSE Respond(TRUE, g.val, TRUE, g.val, <<>>)

NoOutcome ==
  [kind |-> "none", exc |-> "", hasSpeak |-> FALSE, speak |-> NoText,
   hasReprompt |-> FALSE, reprompt |-> NoText]

Outcome(r) ==
  [kind |-> IF r.raised THEN "exception" ELSE "response", exc |-> r.exc,
   hasSpeak |-> r.hasSpeak, speak |-> r.speak,
   hasReprompt |-> r.hasReprompt, reprompt |-> r.reprompt]

\* What lambda_handler returns or raises: the handler's response, the
\* exception handler's response when dispatch raised, the exception itself
\* when no exception handler takes it or the exception handler raises.
lambda_handler(tbl, env, res) ==
  LET r == dispatch(tbl, env, res) IN
  IF ~r.raised THEN Outcome(r)
  ELSE IF CatchAllExceptionHandler_can_handle(r.exc)
  THEN Outcome(CatchAllExceptionHandler_handle(tbl, env))
  ELSE Outcome(r)

\* ---------------------------------------------------------------- steps
NoCall == [locale |-> <<>>, key |-> "", kwargs |-> NoArgs]

Init ==
  /\ LOCALIZED_STRINGS \in Tables
  /\ envelope = NoEnvelope
  /\ handler = NoHandler
  /\ ran = {}
  /\ fault = ""
  /\ boundary = FALSE
  /\ outcome = NoOutcome
  /\ calls = <<>>
  /\ http = NoHttp
  /\ rArgs = NoCall
  /\ rOut = Raised
  /\ rOut2 = Raised

\* No call is in progress: the runtime waits for the next event.
Idle == envelope = NoEnvelope /\ rArgs = NoCall

\* One invocation of lambda_handler on env, requests.get behaving as res.
Invoke(env, res) ==
  LET h == first_match(env)
      r == dispatch(LOCALIZED_STRINGS, env, res)
  IN
  /\ Idle
  /\ envelope' = env
  /\ http' = res
  /\ handler' = h
  /\ ran' = IF h = NoHandler THEN {} ELSE {h}
  /\ fault' = r.exc
  /\ boundary' = (r.raised /\ CatchAllExceptionHandler_can_handle(r.exc))
  /\ outcome' = lambda_handler(LOCALIZED_STRINGS, env, res)
  /\ calls' = r.calls
  /\ rArgs' = NoCall
  /\ rOut' = Raised
  /\ rOut2' = Raised
  /\ UNCHANGED LOCALIZED_STRINGS

\* The request that the handler h takes: no handler of this kind calls
\* requests.get.
Handled(h, env) == Idle /\ first_match(env) = h /\ Invoke(env, NoHttp)

LaunchRequest(env) == Handled("LaunchRequestHandler", env)
HelloWorldIntent(env) == Handled("HelloWorldIntentHandler", env)
LanguageCheckIntent(env) == Handled("LanguageCheckIntentHandler", env)
HelpIntent(env) == Handled("HelpIntentHandler", env)
CancelOrStopIntent(env) == Handled("CancelOrStopIntentHandler", env)
FallbackIntent(env) == Handled("FallbackIntentHandler", env)
SessionEndedRequest(env) == Handled("SessionEndedRequestHandler", env)
IntentReflector(env) == Handled("IntentReflectorHandler", env)
Unrouted(env) == Handled(NoHandler, env)

\* The news request: requests.get is called only on the branch of line
\* 119, the outcome drawn for it is recorded only then.
NewsRequestIntent(env, res) ==
  /\ Idle
  /\ first_match(env) = "NewsRequestIntentHandler"
  /\ IF dispatch(LOCALIZED_STRINGS, env, res).calls = <<>>
     THEN res = NoHttp ELSE res \in HttpOutcomes
  /\ Invoke(env, res)

KwargsChoices ==
  {NoArgs,
   [n \in {"locale"} |-> Chars(en_US)],
   [n \in {"locale", "name"} |-> IF n = "locale" THEN Chars(it_IT) ELSE Lit("Ann")]}

\* A call of get_localized_string on its own.
Resolve(locale, key, kwargs) ==
  /\ Idle
  /\ rArgs' = [locale |-> locale, key |-> key, kwargs |-> kwargs]
  /\ rOut' = get_localized_string(LOCALIZED_STRINGS, locale, key, kwargs)
  /\ rOut2' = get_localized_string(LOCALIZED_STRINGS, locale, key, kwargs)
  /\ envelope' = NoEnvelope
  /\ handler' = NoHandler
  /\ ran' = {}
  /\ fault' = ""
  /\ boundary' = FALSE
  /\ outcome' = NoOutcome
  /\ calls' = <<>>
  /\ http' = NoHttp
  /\ UNCHANGED LOCALIZED_STRINGS

\* The call has returned (or raised) and nothing of it is kept: the
\* table is the only state that outlives a call.
Return ==
  /\ ~Idle
  /\ envelope' = NoEnvelope
  /\ handler' = NoHandler
  /\ ran' = {}
  /\ fault' = ""
  /\ boundary' = FALSE
  /\ outcome' = NoOutcome
  /\ calls' = <<>>
  /\ http' = NoHttp
  /\ rArgs' = NoCall
  /\ rOut' = Raised
  /\ rOut2' = Raised
  /\ UNCHANGED LOCALIZED_STRINGS

Next ==
  \/ \E env \in Envelopes : LaunchRequest(env)
  \/ \E env \in Envelopes : HelloWorldIntent(env)
  \/ \E env \in Envelopes : LanguageCheckIntent(env)
  \/ \E env \in Envelopes, res \in HttpOutcomes \cup {NoHttp} :
       NewsRequestIntent(env, res)
  \/ \E env \in Envelopes : HelpIntent(env)
  \/ \E env \in Envelopes : CancelOrStopIntent(env)
  \/ \E env \in Envelopes : FallbackIntent(env)
  \/ \E env \in Envelopes : SessionEndedRequest(env)
  \/ \E env \in Envelopes : IntentReflector(env)
  \/ \E env \in Envelopes : Unrouted(env)
  \/ \E locale \in Locales, key \in Keys \cup {"UNKNOWN_KEY"},
        kwargs \in KwargsChoices : Resolve(locale, key, kwargs)
  \/ Return

Spec == Init /\ [][Next]_vars

\* ---------------------------------------------------------------- claims
Invoked == envelope # NoEnvelope
Resolved == rArgs # NoCall

SpecificIntentNames ==
  {"HelloWorldIntent", "LanguageCheckIntent", "NewsRequestIntent",
   "AMAZON.HelpIntent", "AMAZON.CancelIntent", "AMAZON.StopIntent",
   "AMAZON.FallbackIntent"}

Matching(env) ==
  {i \in 1..Len(HandlerChain) : can_handle(HandlerChain[i], env)}

Localized(key) ==
  get_localized_string(LOCALIZED_STRINGS, envelope.locale, key, NoArgs)

\* The template a call of get_localized_string formats when the entry it
\* reads is `entry`.
TemplateIn(entry) ==
  IF rArgs.key \in DOMAIN entry THEN entry[rArgs.key]
  ELSE MissingTranslation(rArgs.key, rArgs.locale)

\* C1: get_localized_string never raises on the locale lookup: it reads the
\* entry of the exact locale when the table has it, else the entry of the
\* lowercased language prefix, and returns the 'Missing translation' string
\* naming the key and the locale when the table has neither.
C1_LocaleLookupNeverRaises ==
  Resolved =>
    LET tbl == LOCALIZED_STRINGS
        loc == rArgs.locale
        lang == lower(split_first(rArgs.locale))
    IN /\ ~rOut.raised
       /\ loc \in DOMAIN tbl =>
            rOut.val = format_or_template(TemplateIn(tbl[loc]), rArgs.kwargs)
       /\ (loc \notin DOMAIN tbl /\ lang \in DOMAIN tbl) =>
            rOut.val = format_or_template(TemplateIn(tbl[lang]), rArgs.kwargs)
       /\ (loc \notin DOMAIN tbl /\ lang \notin DOMAIN tbl) =>
            rOut.val = MissingTranslation(rArgs.key, loc)

C3_ExactlyOneHandlerMatches ==
  (Invoked /\ envelope.type \in {"LaunchRequest", "SessionEndedRequest", "IntentRequest"}) =>
    Cardinality(Matching(envelope)) = 1

\* C3 (amended): at most one handler other than the IntentReflector matches
\* an envelope; the IntentReflector matches every IntentRequest besides, so
\* two handlers match an intent with a specific registered name and exactly
\* one matches a LaunchRequest, a SessionEndedRequest or any other intent.
C3_SpecificHandlersExclusive ==
  (Invoked /\ envelope.type \in {"LaunchRequest", "SessionEndedRequest", "IntentRequest"}) =>
    LET specific == {i \in Matching(envelope) :
                       HandlerChain[i] # "IntentReflectorHandler"}
        named == /\ envelope.type = "IntentRequest"
                 /\ envelope.intent \in SpecificIntentNames
    IN /\ Cardinality(specific) <= 1
       /\ Cardinality(Matching(envelope)) = (IF named THEN 2 ELSE 1)
       /\ (\E i \in Matching(envelope) : HandlerChain[i] = "IntentReflectorHandler")
            <=> envelope.type = "IntentRequest"

C3_Witness ==
  /\ Invoked
  /\ envelope.intent = "AMAZON.HelpIntent"
  /\ Cardinality(Matching(envelope)) = 2
  /\ handler = "HelpIntentHandler"

\* C4: the news handler speaks NEWS_TOPIC_NOT_FOUND when the userInput slot
\* is absent (also when the intent has no slots at all), speaks
\* NEWS_TOPIC_NOT_CAUGHT when the slot is there and its value is empty after
\* trimming, makes no call in these two branches, and makes the remote call
\* only when the value is not empty after trimming.
C4_NewsBranchBySlot ==
  (Invoked /\ handler = "NewsRequestIntentHandler" /\ fault = "") =>
    LET sl == envelope.slots
        blank == ~sl.hasValue \/ strip(sl.value) = <<>>
    IN /\ ~sl.slot =>
            /\ outcome.speak = Localized("NEWS_TOPIC_NOT_FOUND").val
            /\ calls = <<>>
       /\ (sl.slot /\ blank) =>
            /\ outcome.speak = Localized("NEWS_TOPIC_NOT_CAUGHT").val
            /\ calls = <<>>
       /\ (sl.slot /\ ~blank) => Len(calls) = 1

\* C5: when the news handler attempts the remote call, it speaks the body
\* of the response verbatim on status 200 and the localized NEWS_API_ERROR
\* message on any other status and on any exception of the request; in the
\* three cases the handler returns a response and nothing propagates.
C5_RemoteResultMapping ==
  (Invoked /\ handler = "NewsRequestIntentHandler" /\ calls # <<>>) =>
    /\ fault = "" /\ ~boundary
    /\ outcome.kind = "response" /\ outcome.exc = ""
    /\ outcome.hasSpeak /\ ~outcome.hasReprompt
    /\ ~Localized("NEWS_API_ERROR").raised
    /\ outcome.speak = (IF ~http.raised /\ http.status = 200
                        THEN <<Body(http.body)>>
                        ELSE Localized("NEWS_API_ERROR").val)

C5_Witness ==
  /\ Invoked
  /\ handler = "NewsRequestIntentHandler"
  /\ Len(calls) = 1
  /\ http.status = 503
  /\ outcome.kind = "response"
  /\ outcome.speak = Localized("NEWS_API_ERROR").val

\* C6: a request causes at most one GET: none unless it is a
\* NewsRequestIntent whose userInput slot has a non-empty value, and then
\* exactly one, with the trimmed value as query and the full locale tag as
\* language.
C6_OneCallPerRequest ==
  Invoked =>
    LET news == /\ envelope.type = "IntentRequest"
                /\ envelope.intent = "NewsRequestIntent"
                /\ envelope.slots.slot /\ envelope.slots.hasValue
                /\ envelope.slots.value # <<>>
    IN /\ Len(calls) <= 1
       /\ ~news => calls = <<>>
       /\ news => calls = <<[query |-> strip(envelope.slots.value),
                             language |-> envelope.locale]>>

\* C7 (as stated): when no registered handler matches, dispatch fails with
\* a routing error that reaches the caller and is not turned into a normal
\* response.
C7_RoutingErrorSurfaced ==
  (Invoked /\ handler = NoHandler) =>
    /\ outcome.kind = "exception"
    /\ outcome.exc = "DispatchException"

\* C7 (amended): when no registered handler matches, the routing error goes
\* to the catch-all exception handler and never reaches the caller: the
\* caller gets a response whose speech and reprompt are the localized
\* ERROR_MESSAGE when the language of the locale is a key of the table, and
\* the KeyError of the localization lookup when it is not.
C7_RoutingErrorToBoundary ==
  (Invoked /\ handler = NoHandler) =>
    /\ ran = {}
    /\ fault = "DispatchException"
    /\ boundary
    /\ outcome.exc # "DispatchException"
    /\ IF lower(split_first(envelope.locale)) \in DOMAIN LOCALIZED_STRINGS
       THEN /\ outcome.kind = "response"
            /\ outcome.hasSpeak /\ outcome.hasReprompt
            /\ outcome.speak = Localized("ERROR_MESSAGE").val
            /\ outcome.reprompt = outcome.speak
       ELSE /\ outcome.kind = "exception"
            /\ outcome.exc = "KeyError"

C7_Witness ==
  /\ Invoked
  /\ handler = NoHandler
  /\ envelope.type = "System.ExceptionEncountered"
  /\ boundary
  /\ outcome.kind = "response"

\* C8: the exception handler takes every exception, and whenever a request
\* handler raises, the response of that request has the localized
\* ERROR_MESSAGE as its speech and as its reprompt.
C8_BoundaryAnswersEveryFault ==
  /\ \A exc \in {"KeyError", "DispatchException", "AttributeError"} :
       CatchAllExceptionHandler_can_handle(exc)
  /\ (Invoked /\ handler # NoHandler /\ fault # "") =>
       /\ boundary
       /\ outcome.kind = "response"
       /\ outcome.hasSpeak /\ outcome.hasReprompt
       /\ ~Localized("ERROR_MESSAGE").raised
       /\ outcome.speak = Localized("ERROR_MESSAGE").val
       /\ outcome.reprompt = outcome.speak

\* C9: for every envelope, a locale whose language is not in the table
\* included, lambda_handler returns a response and raises nothing, and every
\* degraded path ends in a response with a speech.
C9_AlwaysAResponse ==
  Invoked =>
    /\ outcome.kind = "response"
    /\ (fault # "" \/ calls # <<>>
          \/ lower(split_first(envelope.locale)) \notin DOMAIN LOCALIZED_STRINGS)
         => outcome.hasSpeak

====
